---- MODULE Spec2Model ----
(***************************************************************************)
(* Model of the Pi-hole v6 session client (class PiholeClient) of          *)
(* mcp-pihole.  One client instance, MaxOps concurrently running calls of  *)
(* its public operations.  Every await of the TypeScript code where the    *)
(* call waits for the network is a separate step of the call, so that      *)
(* other calls interleave exactly where the event loop lets them.          *)
(***************************************************************************)
EXTENDS Integers, Sequences, FiniteSets, TLC

(* ------------------------------- bounds -------------------------------- *)
\* number of call slots (calls that can be running at the same time)
MaxOps == 2
\* total number of calls started in one behaviour
MaxCalls == 2
\* number of times the clock advances in one behaviour
MaxTicks == 2

\* largest count or duration a caller passes
MaxCount == 11
\* longest domain string a caller passes
MaxDomainLen == 3
\* largest value, maximum and width bar() is called with, beside the
\* values of BarExamples
MaxBar == 10
\* longest top list handed to createDashboard()
MaxListLen == 7
\* largest multiple of each scale of NumScales formatNumber() is called with
MaxScaled == 30

Ops == 1..MaxOps

(* ----------------------------- JS values ------------------------------- *)
\* JavaScript null and undefined
Null == "<null>"
Undef == "<undefined>"

\* JavaScript truthiness of a value that is a string, a boolean, null or
\* undefined (!this.sid, if (this.sid), !data.session?.valid, message || ...);
\* booleans are written "true" and "false"
Truthy(v) == v \notin {Null, Undef, "", "false"}

\* Milliseconds the clock may advance by between two steps
TickSteps == {30000}
\* Date.now() at construction
StartTimes == {120000}

(* --------------------------- remote responses -------------------------- *)
\* JSON true / false
JsTrue == "true"
JsFalse == "false"

\* session objects of a /api/auth body.  present = FALSE is a body without
\* a session property; valid = Undef and message = Undef are absent
\* properties.  The third one is what an appliance without a password
\* answers: a valid session that has no sid.
NoSession ==
  [present |-> FALSE, valid |-> Undef, sid |-> Undef, csrf |-> Undef, validity |-> 0, message |-> Undef]
SessionPayloads ==
  { [present |-> TRUE, valid |-> JsTrue,  sid |-> "s1", csrf |-> "c1", validity |-> 90,  message |-> Undef],
    [present |-> TRUE, valid |-> JsTrue,  sid |-> "s2", csrf |-> "c2", validity |-> 60,  message |-> Undef],
    [present |-> TRUE, valid |-> JsTrue,  sid |-> Null, csrf |-> Null, validity |-> -1,  message |-> "no password set"],
    [present |-> TRUE, valid |-> JsFalse, sid |-> Null, csrf |-> Null, validity |-> -1,  message |-> "password incorrect"],
    [present |-> TRUE, valid |-> JsFalse, sid |-> Null, csrf |-> Null, validity |-> -1,  message |-> ""],
    [present |-> TRUE, valid |-> JsFalse, sid |-> Null, csrf |-> Null, validity |-> -1,  message |-> Undef],
    [present |-> TRUE, valid |-> Undef,   sid |-> Undef, csrf |-> Undef, validity |-> 0, message |-> Undef],
    NoSession }

\* what fetch() of POST /api/auth can settle with:
\*   net = "reject"  the fetch promise rejects (DNS, refused, timeout)
\*   net = "badjson" a response whose body is not JSON
\*   net = "json"    a response whose body is a JSON object
AuthResponses ==
  { [net |-> "reject",  ok |-> FALSE, status |-> 0,   statusText |-> "",             session |-> NoSession],
    [net |-> "badjson", ok |-> TRUE,  status |-> 200, statusText |-> "OK",           session |-> NoSession],
    [net |-> "json",    ok |-> FALSE, status |-> 401, statusText |-> "Unauthorized", session |-> NoSession] }
  \cup
  { [net |-> "json", ok |-> TRUE, status |-> 200, statusText |-> "OK", session |-> s] : s \in SessionPayloads }

\* what fetch() of a data request can settle with; text is the raw body
DataResponses ==
  { [net |-> "reject",  ok |-> FALSE, status |-> 0,   statusText |-> "",             text |-> ""],
    [net |-> "badjson", ok |-> TRUE,  status |-> 200, statusText |-> "OK",           text |-> "<html>"],
    [net |-> "json",    ok |-> TRUE,  status |-> 200, statusText |-> "OK",           text |-> "{data}"],
    [net |-> "json",    ok |-> FALSE, status |-> 401, statusText |-> "Unauthorized", text |-> "{error}"],
    [net |-> "badjson", ok |-> FALSE, status |-> 500, statusText |-> "Internal Server Error", text |-> "<html>"] }

\* headers a caller of request() may put in options.headers
NoHeaders == [h \in {} |-> ""]
OptionHeaders ==
  { NoHeaders,
    [h \in {"X-FTL-SID"} |-> "forged"] }

(* --------------------------- errors and results ------------------------ *)
\* new Error(msg): msg is the list of the pieces the template literal joins
MkError(name, msg) == [tag |-> "error", name |-> name, msg |-> msg, val |-> ""]
MkValue(v) == [tag |-> "value", name |-> "", msg |-> <<>>, val |-> v]
NoResult == [tag |-> "none", name |-> "", msg |-> <<>>, val |-> ""]

\* what the rejected fetch promise carries, and what response.json() throws
TransportError == MkError("TypeError", <<"fetch failed">>)
JsonError == MkError("SyntaxError", <<"Unexpected token">>)

(* ------------------------------ the client ----------------------------- *)
\* data.session?.p
Chain(session, p) == IF session.present THEN session[p] ELSE Undef

\* a || b
OrElse(a, b) == IF Truthy(a) THEN a ELSE b

\* authenticate() that reports a rejected login with the words of request()
Authenticate_ApiWording(resp, t) ==
  LET fail(e) == [write |-> FALSE, result |-> e, sid |-> Null, csrf |-> Null, expiry |-> 0]
  IN  IF resp.net = "reject" THEN fail(TransportError)
      ELSE IF ~resp.ok
        THEN fail(MkError("Error",
               <<"API request failed: ", ToString(resp.status), " ", resp.statusText>>))
      ELSE IF resp.net = "badjson" THEN fail(JsonError)
      ELSE IF ~Truthy(Chain(resp.session, "valid"))
        THEN fail(MkError("Error",
               <<"Authentication failed: ",
                 OrElse(Chain(resp.session, "message"), "Invalid credentials")>>))
      ELSE [write |-> TRUE, result |-> MkValue(Undef),
            sid |-> resp.session.sid, csrf |-> resp.session.csrf,
            expiry |-> t + resp.session.validity * 1000]

\* authenticate() that has ?? in place of || for the message default
Authenticate_NullishDefault(resp, t) ==
  LET fail(e) == [write |-> FALSE, result |-> e, sid |-> Null, csrf |-> Null, expiry |-> 0]
      msg == Chain(resp.session, "message")
  IN  IF resp.net = "reject" THEN fail(TransportError)
      ELSE IF ~resp.ok
        THEN fail(MkError("Error",
               <<"Authentication failed: ", ToString(resp.status), " ", resp.statusText>>))
      ELSE IF resp.net = "badjson" THEN fail(JsonError)
      ELSE IF ~Truthy(Chain(resp.session, "valid"))
        THEN fail(MkError("Error",
               <<"Authentication failed: ",
                 IF msg \in {Null, Undef} THEN "Invalid credentials" ELSE msg>>))
      ELSE [write |-> TRUE, result |-> MkValue(Undef),
            sid |-> resp.session.sid, csrf |-> resp.session.csrf,
            expiry |-> t + resp.session.validity * 1000]

\* authenticate() that stores the session token in the csrf field as well
Authenticate_CsrfFromSid(resp, t) ==
  LET fail(e) == [write |-> FALSE, result |-> e, sid |-> Null, csrf |-> Null, expiry |-> 0]
  IN  IF resp.net = "reject" THEN fail(TransportError)
      ELSE IF ~resp.ok
        THEN fail(MkError("Error",
               <<"Authentication failed: ", ToString(resp.status), " ", resp.statusText>>))
      ELSE IF resp.net = "badjson" THEN fail(JsonError)
      ELSE IF ~Truthy(Chain(resp.session, "valid"))
        THEN fail(MkError("Error",
               <<"Authentication failed: ",
                 OrElse(Chain(resp.session, "message"), "Invalid credentials")>>))
      ELSE [write |-> TRUE, result |-> MkValue(Undef),
            sid |-> resp.session.sid, csrf |-> resp.session.sid,
            expiry |-> t + resp.session.validity * 1000]

\* authenticate(), from the settling of its fetch at time t to its end:
\* the error it throws, or the session fields it stores (write = TRUE)
Authenticate(resp, t) ==
  LET fail(e) == [write |-> FALSE, result |-> e, sid |-> Null, csrf |-> Null, expiry |-> 0]
  IN  IF resp.net = "reject" THEN fail(TransportError)
      ELSE IF ~resp.ok
        THEN fail(MkError("Error",
               <<"Authentication failed: ", ToString(resp.status), " ", resp.statusText>>))
      ELSE IF resp.net = "badjson" THEN fail(JsonError)
      ELSE IF ~Truthy(Chain(resp.session, "valid"))
        THEN fail(MkError("Error",
               <<"Authentication failed: ",
                 OrElse(Chain(resp.session, "message"), "Invalid credentials")>>))
      ELSE [write |-> TRUE, result |-> MkValue(Undef),
            sid |-> resp.session.sid, csrf |-> resp.session.csrf,
            expiry |-> t + resp.session.validity * 1000]

\* ensureAuthenticated() with the margin written in seconds
NeedsAuth_MarginInSeconds(s, e, t) == ~Truthy(s) \/ t >= e - 60

\* ensureAuthenticated() with && in place of ||
NeedsAuth_AndOperator(s, e, t) == Truthy(s) /\ t >= e - 60000

\* ensureAuthenticated() with a ten-minute margin
NeedsAuth_WideMargin(s, e, t) == ~Truthy(s) \/ t >= e - 600000

\* ensureAuthenticated() with > in place of >=
NeedsAuth_StrictBoundary(s, e, t) == ~Truthy(s) \/ t > e - 60000

\* the condition of ensureAuthenticated(): s = this.sid,
\* e = this.sessionExpiry, t = Date.now()
NeedsAuth(s, e, t) == ~Truthy(s) \/ t >= e - 60000

\* request() that spreads options.headers after it has set X-FTL-SID
BuildHeaders_OptionsLast(opt, s) ==
  LET base == [h \in {"Content-Type"} |-> "application/json"]
  IN  IF Truthy(s) THEN opt @@ [h \in {"X-FTL-SID"} |-> s] @@ base ELSE opt @@ base

\* the headers request() hands to fetch: Content-Type, then the caller's
\* options.headers spread over it, then X-FTL-SID when this.sid is truthy
BuildHeaders(opt, s) ==
  LET base == [h \in {"Content-Type"} |-> "application/json"]
      merged == opt @@ base
  IN  IF Truthy(s) THEN [h \in {"X-FTL-SID"} |-> s] @@ merged ELSE merged

\* request() that parses the body before it looks at response.ok
DataOutcome_ParseFirst(resp) ==
  IF resp.net = "reject" THEN TransportError
  ELSE IF resp.net = "badjson" THEN JsonError
  ELSE IF ~resp.ok
    THEN MkError("Error",
           <<"API request failed: ", ToString(resp.status), " ", resp.statusText, " - ", resp.text>>)
  ELSE MkValue(resp.text)

\* request(), from the settling of its data fetch to its end
DataOutcome(resp) ==
  IF resp.net = "reject" THEN TransportError
  ELSE IF ~resp.ok
    THEN MkError("Error",
           <<"API request failed: ", ToString(resp.status), " ", resp.statusText, " - ", resp.text>>)
  ELSE IF resp.net = "badjson" THEN JsonError
  ELSE MkValue(resp.text)

\* testConnection() without its catch
ProbeResult_NoCatch(out) ==
  IF out.result.tag = "error" THEN out.result ELSE MkValue(JsTrue)

\* testConnection(): try { await authenticate(); return true } catch { return false }
ProbeResult(out) ==
  IF out.result.tag = "error" THEN MkValue(JsFalse) ELSE MkValue(JsTrue)


(* -------------------------------- state -------------------------------- *)
VARIABLES
  now,            \* Date.now()
  sid,            \* this.sid
  csrf,           \* this.csrf
  sessionExpiry,  \* this.sessionExpiry
  ops,            \* the running calls, one record per slot
  issued,         \* history: the sids stored by successful exchanges
  lastIssued,     \* history: the sid stored by the latest successful exchange (Undef: none yet)
  settled,        \* history: the response the latest step delivered, and to which call
  rejected,       \* history: the token of the latest data request answered 401
                  \*          since the latest successful exchange (Undef: none)
  tool,           \* the tool call being handled (specification SpecTool)
  viz,            \* the rendering being made (specification SpecViz)
  calls,          \* history: number of calls started
  ticks           \* history: number of clock advances

vars == <<now, sid, csrf, sessionExpiry, ops, issued, lastIssued, settled, rejected,
          tool, viz, calls, ticks>>

\* no tool call is being handled, nothing is being rendered
NoTool == [name |-> "none", pc |-> "none"]
NoViz == [fn |-> "none"]

\* values of settled
NoAuthResp == [net |-> "none", ok |-> FALSE, status |-> 0, statusText |-> "", session |-> NoSession]
NoDataResp == [net |-> "none", ok |-> FALSE, status |-> 0, statusText |-> "", text |-> ""]
NothingSettled == [what |-> "none", o |-> 0, auth |-> NoAuthResp, data |-> NoDataResp]
AuthSettled(o, resp) == [what |-> "auth", o |-> o, auth |-> resp, data |-> NoDataResp]
DataSettled(o, resp) == [what |-> "data", o |-> o, auth |-> NoAuthResp, data |-> resp]

\* a slot no call is running in
IdleOp ==
  [pc |-> "idle", kind |-> "none", opt |-> NoHeaders,
   authCount |-> 0, dataCount |-> 0, authOk |-> FALSE,
   startHeld |-> FALSE, startMargin |-> "none", overtaken |-> FALSE,
   hdr |-> NoHeaders, expect |-> Undef, result |-> NoResult]

Init ==
  /\ now \in StartTimes
  /\ sid = Null
  /\ csrf = Null
  /\ sessionExpiry = 0
  /\ ops = [o \in Ops |-> IdleOp]
  /\ issued = {}
  /\ lastIssued = Undef
  /\ settled = NothingSettled
  /\ rejected = Undef
  /\ tool = NoTool
  /\ viz = NoViz
  /\ calls = 0
  /\ ticks = 0

\* what a call notes of the session when it starts (history only): whether
\* a token is held, and whether Date.now() is more than 60 s before the
\* stored expiry ("far"), exactly 60 s before it ("edge") or later ("near")
Started(kind, opt) ==
  [IdleOp EXCEPT !.kind = kind, !.opt = opt,
                 !.startHeld = Truthy(sid),
                 !.startMargin = IF now < sessionExpiry - 60000 THEN "far"
                                 ELSE IF now = sessionExpiry - 60000 THEN "edge"
                                 ELSE "near"]

\* request() up to its first suspension: ensureAuthenticated() either
\* calls authenticate(), which issues POST /api/auth and waits, or returns
BeginRequest(op) ==
  IF NeedsAuth(sid, sessionExpiry, now)
    THEN [op EXCEPT !.pc = "authWait", !.authCount = @ + 1]
    ELSE [op EXCEPT !.pc = "ensured"]

\* testConnection() up to its first suspension: authenticate() issues
\* POST /api/auth and waits
BeginProbe(op) == [op EXCEPT !.pc = "authWait", !.authCount = @ + 1]

\* ensureAuthenticated() that swallows the error of authenticate()
AfterAuth_Swallow(op, out) ==
  IF op.kind = "probe"
    THEN [op EXCEPT !.pc = "done", !.authOk = out.write, !.result = ProbeResult(out)]
    ELSE [op EXCEPT !.pc = "ensured", !.authOk = out.write]

\* ensureAuthenticated() that calls authenticate() again when it has failed
AfterAuth_Retry(op, out) ==
  IF op.kind = "probe"
    THEN [op EXCEPT !.pc = "done", !.authOk = out.write, !.result = ProbeResult(out)]
  ELSE IF out.write
    THEN [op EXCEPT !.pc = "ensured", !.authOk = TRUE]
  ELSE IF op.authCount < 2
    THEN [op EXCEPT !.pc = "authWait", !.authCount = @ + 1]
    ELSE [op EXCEPT !.pc = "done", !.result = out.result]

\* ensureAuthenticated() that falls back on the token still held when
\* authenticate() has failed
AfterAuth_Fallback(op, out) ==
  IF op.kind = "probe"
    THEN [op EXCEPT !.pc = "done", !.authOk = out.write, !.result = ProbeResult(out)]
  ELSE IF out.write
    THEN [op EXCEPT !.pc = "ensured", !.authOk = TRUE]
  ELSE IF op.startHeld
    THEN [op EXCEPT !.pc = "ensured"]
    ELSE [op EXCEPT !.pc = "done", !.result = out.result]

\* a call after its authenticate() has ended with out
AfterAuth(op, out) ==
  IF op.kind = "probe"
    THEN [op EXCEPT !.pc = "done", !.authOk = out.write, !.result = ProbeResult(out)]
  ELSE IF out.write
    THEN [op EXCEPT !.pc = "ensured", !.authOk = TRUE]
    ELSE [op EXCEPT !.pc = "done", !.result = out.result]

\* a call whose own exchange is still under way when the exchange of
\* another call stores its session (history only)
Overtaken(op) == IF op.pc = "authWait" THEN [op EXCEPT !.overtaken = TRUE] ELSE op

\* request() after ensureAuthenticated(): builds the headers from the
\* this.sid of this moment and issues the data fetch
SendData(op, s) ==
  [op EXCEPT !.pc = "dataWait", !.dataCount = @ + 1, !.hdr = BuildHeaders(op.opt, s)]

\* request() after its data fetch has settled with resp
AfterData(op, resp) == [op EXCEPT !.pc = "done", !.result = DataOutcome(resp)]

(* ------------------------------- actions ------------------------------- *)
\* A call that has ended hands its result to its caller in the microtask
\* that follows, before any network event or new call is handled: nothing
\* else happens while a result is waiting to be taken.
Quiet == \A o \in Ops : ops[o].pc # "done"

\* the slot the next call runs in: slots are interchangeable, so the
\* lowest free one is taken
FreeSlot(o) == ops[o].pc = "idle" /\ \A p \in Ops : p < o => ops[p].pc # "idle"

\* a public operation that goes through request() is called
Invoke(o, opt) ==
  /\ Quiet
  /\ FreeSlot(o)
  /\ calls < MaxCalls
  /\ ops' = [ops EXCEPT ![o] = BeginRequest(Started("request", opt))]
  /\ calls' = calls + 1
  /\ UNCHANGED <<now, sid, csrf, sessionExpiry, issued, lastIssued, ticks>>
  /\ UNCHANGED <<rejected, tool, viz>>
  /\ settled' = NothingSettled

\* testConnection() is called
InvokeProbe(o) ==
  /\ Quiet
  /\ FreeSlot(o)
  /\ calls < MaxCalls
  /\ ops' = [ops EXCEPT ![o] = BeginProbe(Started("probe", NoHeaders))]
  /\ calls' = calls + 1
  /\ UNCHANGED <<now, sid, csrf, sessionExpiry, issued, lastIssued, ticks>>
  /\ UNCHANGED <<rejected, tool, viz>>
  /\ settled' = NothingSettled

\* the POST /api/auth of call o settles with resp; authenticate() runs to
\* its end (response.json() touches no field of the client)
AuthSettle(o, resp) ==
  /\ Quiet
  /\ ops[o].pc = "authWait"
  /\ LET out == Authenticate(resp, now)
     IN  /\ IF out.write
              THEN /\ sid' = out.sid
                   /\ csrf' = out.csrf
                   /\ sessionExpiry' = out.expiry
                   /\ issued' = issued \cup {out.sid}
                   /\ lastIssued' = out.sid
                   /\ rejected' = Undef
              ELSE UNCHANGED <<sid, csrf, sessionExpiry, issued, lastIssued, rejected>>
         /\ ops' = [p \in Ops |->
                      IF p = o THEN [AfterAuth(ops[o], out) EXCEPT !.overtaken = FALSE]
                      ELSE IF out.write THEN Overtaken(ops[p])
                      ELSE ops[p]]
  /\ settled' = AuthSettled(o, resp)
  /\ UNCHANGED <<now, calls, ticks, tool, viz>>

\* call o resumes after ensureAuthenticated() and issues its data request
IssueData(o) ==
  /\ Quiet
  /\ ops[o].pc = "ensured"
  /\ ops' = [ops EXCEPT ![o] = [SendData(ops[o], sid) EXCEPT !.expect = lastIssued]]
  /\ UNCHANGED <<now, sid, csrf, sessionExpiry, issued, lastIssued, calls, ticks>>
  /\ UNCHANGED <<rejected, tool, viz>>
  /\ settled' = NothingSettled

\* the data fetch of call o settles with resp
DataSettle(o, resp) ==
  /\ Quiet
  /\ ops[o].pc = "dataWait"
  /\ ops' = [ops EXCEPT ![o] = AfterData(ops[o], resp)]
  /\ settled' = DataSettled(o, resp)
  /\ rejected' = IF resp.net # "reject" /\ resp.status = 401 /\ "X-FTL-SID" \in DOMAIN ops[o].hdr
                   THEN ops[o].hdr["X-FTL-SID"]
                   ELSE rejected
  /\ UNCHANGED <<now, sid, csrf, sessionExpiry, issued, lastIssued, calls, ticks, tool, viz>>

\* the caller takes the result of call o; the slot is free again
Return(o) ==
  /\ ops[o].pc = "done"
  /\ ops' = [ops EXCEPT ![o] = IdleOp]
  /\ UNCHANGED <<now, sid, csrf, sessionExpiry, issued, lastIssued, calls, ticks>>
  /\ UNCHANGED <<rejected, tool, viz>>
  /\ settled' = NothingSettled

\* time passes
Tick(d) ==
  /\ Quiet
  /\ ticks < MaxTicks
  /\ now' = now + d
  /\ ticks' = ticks + 1
  /\ UNCHANGED <<sid, csrf, sessionExpiry, ops, issued, lastIssued, calls>>
  /\ UNCHANGED <<rejected, tool, viz>>
  /\ settled' = NothingSettled

Next ==
  \/ \E o \in Ops, opt \in OptionHeaders : Invoke(o, opt)
  \/ \E o \in Ops : InvokeProbe(o)
  \/ \E o \in Ops, resp \in AuthResponses : AuthSettle(o, resp)
  \/ \E o \in Ops : IssueData(o)
  \/ \E o \in Ops, resp \in DataResponses : DataSettle(o, resp)
  \/ \E o \in Ops : Return(o)
  \/ \E d \in TickSteps : Tick(d)

Spec == Init /\ [][Next]_vars

(* ------------------- the public operations of the client -------------- *)
\* an optional number argument: given = FALSE is an omitted (undefined) one
NoArg == [given |-> FALSE, v |-> 0]
Arg(n) == [given |-> TRUE, v |-> n]
NumArgs == {NoArg} \cup {Arg(n) : n \in -2..MaxCount}

\* strings that are built or read character by character are sequences of
\* one-character strings
DigitChars == <<"0", "1", "2", "3", "4", "5", "6", "7", "8", "9">>

\* String(n) of an integer, as a template literal inserts it
RECURSIVE NatToStr(_)
NatToStr(n) ==
  IF n < 10 THEN <<DigitChars[n + 1]>>
  ELSE NatToStr(n \div 10) \o <<DigitChars[(n % 10) + 1]>>
NumToStr(n) == IF n < 0 THEN <<"-">> \o NatToStr(-n) ELSE NatToStr(n)

\* the integer a decimal string denotes (what the remote reads back)
DigitVal(c) == CHOOSE d \in 0..9 : DigitChars[d + 1] = c
RECURSIVE StrToNat(_)
StrToNat(str) ==
  IF Len(str) = 0 THEN 0
  ELSE 10 * StrToNat(SubSeq(str, 1, Len(str) - 1)) + DigitVal(str[Len(str)])
StrToNum(str) ==
  IF Len(str) > 0 /\ str[1] = "-" THEN 0 - StrToNat(Tail(str)) ELSE StrToNat(str)

\* a parameter with a default value (count: number = 10) where the
\* default is taken whenever the argument is falsy
DefaultParam_Falsy(a, d) == IF a.given /\ a.v # 0 THEN a.v ELSE d

\* a parameter with a default value (count: number = 10): the default is
\* taken when the argument is undefined
DefaultParam(a, d) == IF a.given THEN a.v ELSE d

\* if (duration): an optional number that is given and not 0
TruthyNum(a) == a.given /\ a.v # 0

\* the characters encodeURIComponent leaves as they are, among those used
Unreserved == {"a", "b", ".", "-", "_", "0", "2", "5"}
\* the characters of domain arguments
DomainChars == Unreserved \cup {" ", "&", "/", "?", "#", "%"}
\* their character codes
CharCode ==
  [c \in {" ", "#", "%", "&", "/", "?"} |->
     CASE c = " " -> 32 [] c = "#" -> 35 [] c = "%" -> 37
       [] c = "&" -> 38 [] c = "/" -> 47 [] c = "?" -> 63]
HexChars == <<"0", "1", "2", "3", "4", "5", "6", "7", "8", "9", "A", "B", "C", "D", "E", "F">>

\* encodeURI(), which leaves the reserved characters / ? & # as they are
EncodeChar_EncodeURI(c) ==
  IF c \in Unreserved \cup {"/", "?", "&", "#"} THEN <<c>>
  ELSE <<"%", HexChars[(CharCode[c] \div 16) + 1], HexChars[(CharCode[c] % 16) + 1]>>

\* encodeURIComponent() of one character
EncodeChar(c) ==
  IF c \in Unreserved THEN <<c>>
  ELSE <<"%", HexChars[(CharCode[c] \div 16) + 1], HexChars[(CharCode[c] % 16) + 1]>>

\* encodeURIComponent(str)
RECURSIVE EncodeURIComponent(_)
EncodeURIComponent(str) ==
  IF Len(str) = 0 THEN <<>>
  ELSE EncodeChar(Head(str)) \o EncodeURIComponent(Tail(str))

\* the body of a request: none, {blocking, timer?} or {domain}
NoBody == [kind |-> "none", blocking |-> JsFalse, hasTimer |-> FALSE, timer |-> 0, domain |-> <<>>]
BlockingBody(b, hasTimer, t) ==
  [kind |-> "blocking", blocking |-> b, hasTimer |-> hasTimer, timer |-> t, domain |-> <<>>]
DomainBody(d) ==
  [kind |-> "domain", blocking |-> JsFalse, hasTimer |-> FALSE, timer |-> 0, domain |-> d]

\* the endpoint and options a public operation hands to request(): the
\* endpoint is prefix followed by tail
Req(method, prefix, tail, body) ==
  [method |-> method, prefix |-> prefix, tail |-> tail, body |-> body]
NoReq == Req("none", "", <<>>, NoBody)

\* the public operations that go through request()
Methods ==
  {"getStats", "getTopBlockedDomains", "getTopPermittedDomains", "getTopClients",
   "getQueryLog", "getBlockingStatus", "enableBlocking", "disableBlocking",
   "addToWhitelist", "addToBlacklist", "removeFromWhitelist", "removeFromBlacklist",
   "getWhitelist", "getBlacklist", "updateGravity", "flushCache"}

\* the request of operation m called with the number argument num (count
\* or duration) and the domain dom
ClientRequest(m, num, dom) ==
  CASE m = "getStats" -> Req("GET", "/stats/summary", <<>>, NoBody)
    [] m = "getTopBlockedDomains" ->
         Req("GET", "/stats/top_domains?blocked=true&count=", NumToStr(DefaultParam(num, 10)), NoBody)
    [] m = "getTopPermittedDomains" ->
         Req("GET", "/stats/top_domains?blocked=false&count=", NumToStr(DefaultParam(num, 10)), NoBody)
    [] m = "getTopClients" ->
         Req("GET", "/stats/top_clients?count=", NumToStr(DefaultParam(num, 10)), NoBody)
    [] m = "getQueryLog" ->
         Req("GET", "/queries?length=", NumToStr(DefaultParam(num, 100)), NoBody)
    [] m = "getBlockingStatus" -> Req("GET", "/dns/blocking", <<>>, NoBody)
    [] m = "enableBlocking" -> Req("POST", "/dns/blocking", <<>>, BlockingBody(JsTrue, FALSE, 0))
    [] m = "disableBlocking" ->
         Req("POST", "/dns/blocking", <<>>,
             IF TruthyNum(num) THEN BlockingBody(JsFalse, TRUE, num.v)
                               ELSE BlockingBody(JsFalse, FALSE, 0))
    [] m = "addToWhitelist" -> Req("POST", "/domains/allow/exact", <<>>, DomainBody(dom))
    [] m = "addToBlacklist" -> Req("POST", "/domains/deny/exact", <<>>, DomainBody(dom))
    [] m = "removeFromWhitelist" ->
         Req("DELETE", "/domains/allow/exact/", EncodeURIComponent(dom), NoBody)
    [] m = "removeFromBlacklist" ->
         Req("DELETE", "/domains/deny/exact/", EncodeURIComponent(dom), NoBody)
    [] m = "getWhitelist" -> Req("GET", "/domains/allow/exact", <<>>, NoBody)
    [] m = "getBlacklist" -> Req("GET", "/domains/deny/exact", <<>>, NoBody)
    [] m = "updateGravity" -> Req("POST", "/action/gravity", <<>>, NoBody)
    [] m = "flushCache" -> Req("POST", "/action/flush/cache", <<>>, NoBody)

\* the domain strings callers pass: all strings of DomainChars up to
\* MaxDomainLen characters
RECURSIVE StringsUpTo(_)
StringsUpTo(n) ==
  IF n = 0 THEN {<<>>}
  ELSE LET shorter == StringsUpTo(n - 1)
       IN  shorter \cup {Append(str, c) : str \in shorter, c \in DomainChars}
Domains == StringsUpTo(MaxDomainLen)

\* the arguments a caller can give to operation m
NumArgsOf(m) ==
  IF m \in {"getTopBlockedDomains", "getTopPermittedDomains", "getTopClients",
            "getQueryLog", "disableBlocking"}
    THEN NumArgs ELSE {NoArg}
DomainsOf(m) ==
  IF m \in {"removeFromWhitelist", "removeFromBlacklist"} THEN Domains
  ELSE IF m \in {"addToWhitelist", "addToBlacklist"} THEN {<<"a", ".", "b">>}
  ELSE {<<>>}

(* ------------------------------ the renderer --------------------------- *)
\* Rendered text is a sequence of glyphs, one display column each.
\* BAR_FULL and BAR_PARTIAL[i + 1] (i eighths of a column; BAR_PARTIAL[1]
\* is the empty string '') are written by name.
BAR_FULL == "[8/8]"
BAR_PARTIAL == <<"", "[1/8]", "[2/8]", "[3/8]", "[4/8]", "[5/8]", "[6/8]", "[7/8]">>

\* str.repeat(n) of a one-glyph string
Repeat(g, n) == [i \in 1..n |-> g]

\* pad(str, width, align)
Pad(str, width, align) ==
  IF Len(str) >= width THEN SubSeq(str, 1, width)
  ELSE IF align = "left" THEN str \o Repeat(" ", width - Len(str))
  ELSE Repeat(" ", width - Len(str)) \o str

\* bar() that rounds the number of full blocks to the nearest integer
Bar_RoundBlocks(value, max, width) ==
  IF max = 0 THEN Repeat(" ", width)
  ELSE LET scaled == IF value >= max THEN width * max ELSE value * width
           fullBlocks == (2 * scaled + max) \div (2 * max)
           partialIndex == IF scaled >= fullBlocks * max
                             THEN ((scaled - fullBlocks * max) * 8) \div max
                             ELSE 0
           blocks == Repeat(BAR_FULL, fullBlocks)
           result == IF partialIndex > 0 /\ Len(blocks) < width
                       THEN Append(blocks, BAR_PARTIAL[partialIndex + 1])
                       ELSE blocks
       IN  Pad(result, width, "left")

\* bar(value, max, width).  ratio * width is the fraction scaled / max,
\* with ratio = min(value / max, 1); the quotients are taken exactly
Bar(value, max, width) ==
  IF max = 0 THEN Repeat(" ", width)
  ELSE LET scaled == IF value >= max THEN width * max ELSE value * width
           fullBlocks == scaled \div max
           partialIndex == ((scaled - fullBlocks * max) * 8) \div max
           blocks == Repeat(BAR_FULL, fullBlocks)
           result == IF partialIndex > 0 /\ Len(blocks) < width
                       THEN Append(blocks, BAR_PARTIAL[partialIndex + 1])
                       ELSE blocks
       IN  Pad(result, width, "left")

\* the runtime a number is formatted in: the default locale of the
\* process, and tieUp, the side on which the double nearest to
\* num / 1000000 lies when num is halfway between two tenths of a million
\* and the quotient has no exact binary representation
Locales == {"en-US", "de-DE", "es-ES"}
Formats == [locale : Locales, tieUp : BOOLEAN]

\* num.toLocaleString() of an integer of up to six digits: en-US groups
\* with ",", de-DE with ".", es-ES with "." from five digits on
ToLocaleString(num, locale) ==
  LET d == NatToStr(num)
      sep == CASE locale = "en-US" -> <<",">>
               [] locale = "de-DE" -> <<".">>
               [] locale = "es-ES" -> IF Len(d) >= 5 THEN <<".">> ELSE <<>>
  IN  IF Len(d) <= 3 THEN d
      ELSE SubSeq(d, 1, Len(d) - 3) \o sep \o SubSeq(d, Len(d) - 2, Len(d))

\* (num / 1000).toFixed(0): a remainder of exactly 500 is an exact half,
\* which toFixed rounds up
ThousandsFixed0(num) == NatToStr((num + 500) \div 1000)

\* (num / 1000000).toFixed(1).  Halfway between two tenths the quotient
\* (2q + 1) / 20 is exact when 5 divides 2q + 1 and is then rounded up;
\* otherwise the side of the nearest double decides
MillionsFixed1(num, tieUp) ==
  LET q == num \div 100000
      r == num % 100000
      up == \/ r > 50000
            \/ r = 50000 /\ ((2 * q + 1) % 5 = 0 \/ tieUp)
      t == IF up THEN q + 1 ELSE q
  IN  NatToStr(t \div 10) \o <<".", DigitChars[(t % 10) + 1]>>

\* formatNumber() that abbreviates from 1000 on
FormatNumber_KFromThousand(num, fmt) ==
  IF num >= 1000000 THEN MillionsFixed1(num, fmt.tieUp) \o <<"M">>
  ELSE IF num >= 1000 THEN ThousandsFixed0(num) \o <<"K">>
  ELSE NatToStr(num)

\* formatNumber(num) of a non-negative integer, in the runtime fmt
FormatNumber(num, fmt) ==
  IF num >= 1000000 THEN MillionsFixed1(num, fmt.tieUp) \o <<"M">>
  ELSE IF num >= 10000 THEN ThousandsFixed0(num) \o <<"K">>
  ELSE IF num >= 1000 THEN ToLocaleString(num, fmt.locale)
  ELSE NatToStr(num)

\* Math.max(...list) of a non-empty list of counts
RECURSIVE MaxOf(_)
MaxOf(list) ==
  IF Len(list) = 1 THEN list[1]
  ELSE LET m == MaxOf(Tail(list)) IN IF list[1] > m THEN list[1] ELSE m

\* list.slice(0, n)
Slice(list, n) == SubSeq(list, 1, IF Len(list) < n THEN Len(list) ELSE n)

\* an optional top list of createDashboard(): its counts, or absent
NoList == [present |-> FALSE, items |-> <<>>]
List(items) == [present |-> TRUE, items |-> items]

\* const W = 78; // Total width
W == 78
\* the display columns of an emoji of a section title
EmojiCols == 2

\* the display columns of the title text of a section, and the number of
\* spaces ' '.repeat() puts after it (the header title is one literal)
TitleCols(sec) ==
  CASE sec = "header" -> 25 + EmojiCols + 2 + 17 + 26
    [] sec = "summary" -> (1 + EmojiCols + 1 + 7) + (W - 14)
    [] sec = "clients" -> (1 + EmojiCols + 1 + 11) + (W - 18)
    [] sec = "blocked" -> (1 + EmojiCols + 1 + 19) + (W - 26)
    [] sec = "permitted" -> (1 + EmojiCols + 1 + 21) + (W - 28)

\* the display columns of a line that does not depend on the input, the
\* two border glyphs included; ANSI colour sequences take no column
LineCols(sec, kind) ==
  CASE kind \in {"top", "bottom", "hline", "blank"} -> 1 + (W - 2) + 1
    [] kind = "rule" -> 1 + 1 + (W - 6) + 1 + 1
    [] kind = "title" -> 1 + TitleCols(sec) + 1
    [] OTHER -> 0

\* one line of a dashboard: the section it belongs to, what it is, for a
\* data row the bar and the count it shows, and its display columns
Line(sec, kind) ==
  [sec |-> sec, kind |-> kind, bar |-> <<>>, count |-> 0, cols |-> LineCols(sec, kind)]

\* the statistics createDashboard() renders, as far as they matter to the
\* layout: stats.queries.total, taken for each number of the summary, and
\* the runtime the numbers are formatted in
Stats(total, fmt) == [total |-> total, fmt |-> fmt]

\* a row of the summary: two labelled cells
SummaryRow(cell1, cell2) ==
  [sec |-> "summary", kind |-> "row", bar |-> <<>>, count |-> 0,
   cols |-> 1 + 21 + Len(Pad(cell1, 12, "left")) + 24 + Len(Pad(cell2, 12, "left")) + 1]

\* client.name || client.ip and domain.domain of the item with the given
\* count: labels that grow with the count, up to more than 40 characters
ClientLabel(count) == <<"1", "0", ".", "0", ".", "0", ".">> \o NatToStr(count)
DomainLabel(count) == Repeat("a", 6 * count) \o <<".", "c", "o", "m">>

\* ((count / total) * 100).toFixed(0), the quotient taken exactly
PctText(count, total) ==
  IF total = 0
    THEN IF count = 0 THEN <<"N", "a", "N">>
         ELSE <<"I", "n", "f", "i", "n", "i", "t", "y">>
    ELSE NatToStr((200 * count + total) \div (2 * total))

\* a data row of a top section
DataRow(sec, count, max, barWidth, stats) ==
  LET barStr == Bar(count, max, barWidth)
      countStr == Pad(FormatNumber(count, stats.fmt), 8, "right")
  IN  [sec |-> sec, kind |-> "row", bar |-> barStr, count |-> count,
       cols |->
         IF sec = "clients"
           THEN 1 + (1 + Len(Pad(ClientLabel(count), 16, "left")) + 1 + Len(barStr) + 2
                     + Len(countStr) + 1 + 1
                     + Len(Pad(PctText(count, stats.total), 2, "right")) + 2) + 1
           ELSE 1 + (1 + Len(Pad(DomainLabel(count), 40, "left")) + 1 + Len(barStr) + 1
                     + Len(countStr)) + 1]

\* a top-list section that shows every item of the list
TopSection_NoSlice(sec, list, barWidth, stats) ==
  IF list.present /\ Len(list.items) > 0
    THEN <<Line(sec, "hline"), Line(sec, "title"), Line(sec, "rule")>>
         \o [i \in 1..Len(list.items) |->
               DataRow(sec, list.items[i], MaxOf(list.items), barWidth, stats)]
         \o <<Line(sec, "blank")>>
    ELSE <<>>

\* the lines of one top-list section of createDashboard()
TopSection(sec, list, barWidth, stats) ==
  IF list.present /\ Len(list.items) > 0
    THEN <<Line(sec, "hline"), Line(sec, "title"), Line(sec, "rule")>>
         \o [i \in 1..Len(Slice(list.items, 6)) |->
               DataRow(sec, list.items[i], MaxOf(list.items), barWidth, stats)]
         \o <<Line(sec, "blank")>>
    ELSE <<>>

\* createDashboard(stats): the lines it joins
CreateDashboard(stats, topClients, topBlocked, topPermitted) ==
  LET totalQ == FormatNumber(stats.total, stats.fmt)
      plain == NatToStr(stats.total)
  IN  <<Line("header", "top"), Line("header", "title"), Line("header", "hline"),
        Line("summary", "blank"), Line("summary", "title"), Line("summary", "rule"),
        SummaryRow(totalQ, totalQ), SummaryRow(totalQ, plain),
        SummaryRow(plain \o <<".", "0", "%">>, plain),
        Line("summary", "blank")>>
      \o TopSection("clients", topClients, 40, stats)
      \o TopSection("blocked", topBlocked, 20, stats)
      \o TopSection("permitted", topPermitted, 20, stats)
      \o <<Line("footer", "bottom")>>

\* the percentage createBarChart() appends to a row when total is truthy
PctStr(value, total) ==
  IF TruthyNum(total) THEN 2 + Len(PctText(value, total.v)) + 2 ELSE 0

\* createBarChart(title, items, total, barColor): the lines it joins;
\* titleLen is title.length, items are the values
CreateBarChart(titleLen, items, total, fmt) ==
  LET chartLine(kind, cols) ==
        [sec |-> "chart", kind |-> kind, bar |-> <<>>, count |-> 0, cols |-> cols]
      chartRow(value) ==
        LET barStr == Bar(value, MaxOf(items), 30)
        IN  [sec |-> "chart", kind |-> "row", bar |-> barStr, count |-> value,
             cols |-> 1 + (1 + Len(Pad(DomainLabel(value), 30, "left")) + 1 + Len(barStr) + 1
                           + Len(Pad(FormatNumber(value, fmt), 8, "right"))
                           + PctStr(value, total)) + 1]
  IN  <<chartLine("top", LineCols("chart", "top")),
        chartLine("title", 1 + (1 + titleLen + (W - titleLen - 4)) + 1),
        chartLine("hline", LineCols("chart", "hline")),
        chartLine("blank", LineCols("chart", "blank"))>>
      \o (IF Len(items) = 0
            THEN <<chartLine("nodata", 1 + (18 + (W - 21)) + 1)>>
            ELSE [i \in 1..Len(Slice(items, 10)) |-> chartRow(items[i])])
      \o <<chartLine("blank", LineCols("chart", "blank")),
           chartLine("bottom", LineCols("chart", "bottom"))>>

\* the inputs of the renderer
BarExamples == {0, 33, 50, 100}
BarValues == 0..MaxBar \cup BarExamples
BarWidths == 0..MaxBar
\* n, n-1, ..., 1: a list as the remote returns it, descending by count
Descending(n) == [i \in 1..n |-> n + 1 - i]
ListInputs == {NoList, List(<<0>>)} \cup {List(Descending(n)) : n \in 0..MaxListLen}
\* stats.queries.total / data.total_queries: none, few and many queries
StatsInputs == {Stats(total, fmt) : total \in {0, 5, 1500}, fmt \in Formats}
\* title.length of the three titles the handler passes to createBarChart()
TitleLens == {14, 22, 24}

\* the numbers formatNumber() is called with: around the multiples of each
\* scale, and the values at the limits of its four ranges
NumScales == {1, 500, 1000, 50000, 1000000}
FormatExamples == {999, 1500, 15000, 2500000, 999499, 999500, 999999}
FormatInputs ==
  {n \in {m * sc + d : m \in 0..MaxScaled, sc \in NumScales, d \in {-1, 0, 1}} : n >= 0}
  \cup FormatExamples

\* formatNumber(num) is called
CallFormatNumber(num, fmt) ==
  /\ viz = NoViz
  /\ viz' = [fn |-> "formatNumber", num |-> num, fmt |-> fmt, out |-> FormatNumber(num, fmt)]
  /\ UNCHANGED <<now, sid, csrf, sessionExpiry, ops, issued, lastIssued, settled,
                 rejected, tool, calls, ticks>>

\* bar(value, max, width) is called; the renderer is synchronous, one call
\* at a time
CallBar(value, max, width) ==
  /\ viz = NoViz
  /\ viz' = [fn |-> "bar", value |-> value, max |-> max, width |-> width,
             out |-> Bar(value, max, width)]
  /\ UNCHANGED <<now, sid, csrf, sessionExpiry, ops, issued, lastIssued, settled,
                 rejected, tool, calls, ticks>>

\* createDashboard(stats) is called
CallDashboard(stats, topClients, topBlocked, topPermitted) ==
  /\ viz = NoViz
  /\ viz' = [fn |-> "dashboard", stats |-> stats, topClients |-> topClients,
             topBlocked |-> topBlocked, topPermitted |-> topPermitted,
             lines |-> CreateDashboard(stats, topClients, topBlocked, topPermitted)]
  /\ UNCHANGED <<now, sid, csrf, sessionExpiry, ops, issued, lastIssued, settled,
                 rejected, tool, calls, ticks>>

\* createBarChart(title, items, total, barColor) is called
CallBarChart(titleLen, items, total, fmt) ==
  /\ viz = NoViz
  /\ viz' = [fn |-> "chart", titleLen |-> titleLen, items |-> items, total |-> total,
             fmt |-> fmt, lines |-> CreateBarChart(titleLen, items, total, fmt)]
  /\ UNCHANGED <<now, sid, csrf, sessionExpiry, ops, issued, lastIssued, settled,
                 rejected, tool, calls, ticks>>

\* the call returns its text to the caller
VizReturn ==
  /\ viz # NoViz
  /\ viz' = NoViz
  /\ UNCHANGED <<now, sid, csrf, sessionExpiry, ops, issued, lastIssued, settled,
                 rejected, tool, calls, ticks>>

VizNext ==
  \/ VizReturn
  \/ \E num \in FormatInputs, fmt \in Formats : CallFormatNumber(num, fmt)
  \/ \E value \in BarValues, max \in BarValues, width \in BarWidths : CallBar(value, max, width)
  \/ \E st \in StatsInputs, a \in ListInputs, b \in ListInputs, c \in ListInputs :
       CallDashboard(st, a, b, c)
  \/ \E len \in TitleLens, list \in ListInputs \ {NoList}, fmt \in Formats :
       \E total \in {NoArg, Arg(0), Arg(5), Arg(1500)} :
         CallBarChart(len, list.items, total, fmt)

\* the renderer alone: a client that is never called
SpecViz == Init /\ [][VizNext]_vars

(* --------------------------- the tool handler -------------------------- *)
\* The handler of CallToolRequestSchema.  A call of a client operation is
\* seen from the handler as one await that ends with an error
\* authenticate() or request() throws, or with the parsed body.

\* the parsed body of a 2xx JSON response, by the properties the handler
\* reads: stats (queries, clients, gravity are there), blocking, success,
\* the list (domains, clients or queries) and processed, the outcome of a
\* list change ("ok", "errors"); Undef is an absent property
Json(stats, blocking, success, list, processed) ==
  [stats |-> stats, blocking |-> blocking, success |-> success, list |-> list,
   processed |-> processed]
NoJson == Json(FALSE, Undef, Undef, NoList, Undef)
JsonBodies ==
  { NoJson,
    Json(TRUE, Undef, Undef, NoList, Undef),
    Json(FALSE, "enabled", Undef, NoList, Undef),
    Json(FALSE, "disabled", Undef, NoList, Undef),
    Json(FALSE, Undef, JsTrue, NoList, Undef),
    Json(FALSE, Undef, JsFalse, NoList, Undef),
    Json(FALSE, Undef, Undef, List(<<>>), "ok"),
    Json(FALSE, Undef, Undef, List(Descending(2)), "errors"),
    Json(FALSE, Undef, Undef, List(Descending(MaxListLen)), Undef) }

\* how an awaited client call ends
Fail(e) == [ok |-> FALSE, err |-> e, body |-> NoJson]
Done(b) == [ok |-> TRUE, err |-> NoResult, body |-> b]
Pending == [ok |-> FALSE, err |-> NoResult, body |-> NoJson]
\* the errors a client call can end with: those of request() and those of
\* authenticate()
ClientFailures ==
  {DataOutcome(r) : r \in {x \in DataResponses : DataOutcome(x).tag = "error"}}
  \cup {Authenticate(r, 0).result : r \in {x \in AuthResponses : ~Authenticate(x, 0).write}}
CallOutcomes == {Fail(e) : e \in ClientFailures} \cup {Done(b) : b \in JsonBodies}

\* reading a property of undefined
PropertyError == MkError("TypeError", <<"Cannot read properties of undefined">>)

\* request.params.arguments: present = FALSE is a call without arguments;
\* num is count or duration, visualize is FALSE when absent
NoArgs == [present |-> FALSE, num |-> NoArg, domain |-> <<>>, visualize |-> FALSE]
Args(num, domain, visualize) ==
  [present |-> TRUE, num |-> num, domain |-> domain, visualize |-> visualize]

ToolNames ==
  {"pihole_get_stats", "pihole_get_blocking_status", "pihole_enable_blocking",
   "pihole_disable_blocking", "pihole_get_top_blocked", "pihole_get_top_permitted",
   "pihole_get_top_clients", "pihole_get_query_log", "pihole_add_to_whitelist",
   "pihole_add_to_blacklist", "pihole_remove_from_whitelist",
   "pihole_remove_from_blacklist", "pihole_get_whitelist", "pihole_get_blacklist",
   "pihole_update_gravity", "pihole_flush_cache"}
\* a name that is not in TOOLS
UnknownTool == "pihole_reboot"
CountTools ==
  {"pihole_get_top_blocked", "pihole_get_top_permitted", "pihole_get_top_clients",
   "pihole_get_query_log"}
ChartTools == {"pihole_get_top_blocked", "pihole_get_top_permitted", "pihole_get_top_clients"}
DomainTools ==
  {"pihole_add_to_whitelist", "pihole_add_to_blacklist", "pihole_remove_from_whitelist",
   "pihole_remove_from_blacklist"}

\* the arguments a caller can give to a tool
ArgsOf(name) ==
  {NoArgs} \cup
  CASE name = "pihole_get_stats" -> {Args(NoArg, <<>>, v) : v \in BOOLEAN}
    [] name \in ChartTools -> {Args(n, <<>>, v) : n \in NumArgs, v \in BOOLEAN}
    [] name \in {"pihole_get_query_log", "pihole_disable_blocking"} ->
         {Args(n, <<>>, FALSE) : n \in NumArgs}
    [] name \in DomainTools -> {Args(NoArg, d, FALSE) : d \in {<<"a", ".", "b">>, <<"a", " ", "&">>}}
    [] OTHER -> {Args(NoArg, <<>>, FALSE)}

\* the client operation a tool awaits first
ToolMethod(name) ==
  CASE name = "pihole_get_stats" -> "getStats"
    [] name = "pihole_get_blocking_status" -> "getBlockingStatus"
    [] name = "pihole_enable_blocking" -> "enableBlocking"
    [] name = "pihole_disable_blocking" -> "disableBlocking"
    [] name = "pihole_get_top_blocked" -> "getTopBlockedDomains"
    [] name = "pihole_get_top_permitted" -> "getTopPermittedDomains"
    [] name = "pihole_get_top_clients" -> "getTopClients"
    [] name = "pihole_get_query_log" -> "getQueryLog"
    [] name = "pihole_add_to_whitelist" -> "addToWhitelist"
    [] name = "pihole_add_to_blacklist" -> "addToBlacklist"
    [] name = "pihole_remove_from_whitelist" -> "removeFromWhitelist"
    [] name = "pihole_remove_from_blacklist" -> "removeFromBlacklist"
    [] name = "pihole_get_whitelist" -> "getWhitelist"
    [] name = "pihole_get_blacklist" -> "getBlacklist"
    [] name = "pihole_update_gravity" -> "updateGravity"
    [] name = "pihole_flush_cache" -> "flushCache"

\* args?.count || 10: an optional number or, when it is falsy, d
OrDefault(a, d) == IF TruthyNum(a) THEN a.v ELSE d

\* args?.count, args?.duration
ArgNum(args) == IF args.present THEN args.num ELSE NoArg

\* the number a tool passes to its client operation
ToolClientArg(name, args) ==
  CASE name \in ChartTools -> Arg(OrDefault(ArgNum(args), 10))
    [] name = "pihole_get_query_log" -> Arg(OrDefault(ArgNum(args), 100))
    [] name = "pihole_disable_blocking" -> ArgNum(args)
    [] OTHER -> NoArg

\* what the handler returns: escaped = TRUE is an exception that leaves the
\* handler; text is the list of the pieces of content[0].text; lines are
\* the lines of a dashboard
NoReply == [escaped |-> FALSE, isError |-> FALSE, text |-> <<>>, lines |-> <<>>]
Result(text) == [escaped |-> FALSE, isError |-> FALSE, text |-> text, lines |-> <<>>]
Rendered(lines) == [escaped |-> FALSE, isError |-> FALSE, text |-> <<"dashboard">>, lines |-> lines]

\* a catch clause that handles instances of Error thrown by the client and
\* rethrows everything else
Caught_RethrowOthers(e) ==
  IF e.name = "Error"
    THEN [escaped |-> FALSE, isError |-> TRUE, text |-> <<"Error: ">> \o e.msg, lines |-> <<>>]
    ELSE [escaped |-> TRUE, isError |-> FALSE, text |-> <<>>, lines |-> <<>>]

\* the catch clause of the handler
Caught(e) ==
  [escaped |-> FALSE, isError |-> TRUE, text |-> <<"Error: ">> \o e.msg, lines |-> <<>>]

\* a fan-out fetch without .catch(): its rejection rejects Promise.all
AuxResult_NoCatch(out) ==
  IF out.ok THEN [rejected |-> FALSE, err |-> NoResult, list |-> out.body.list]
  ELSE [rejected |-> TRUE, err |-> out.err, list |-> NoList]

\* pihole.getTopClients(6).catch(() => ({ clients: [] })) and its two
\* siblings, then .clients / .domains of what Promise.all delivers
AuxResult(out) ==
  IF out.ok THEN [rejected |-> FALSE, err |-> NoResult, list |-> out.body.list]
  ELSE [rejected |-> FALSE, err |-> NoResult, list |-> List(<<>>)]

\* the rest of a case of the switch after its client call has returned
\* body: the error it raises (err) or the result it returns (reply)
Raises(e) == [err |-> e, reply |-> NoReply]
Returns(r) == [err |-> NoResult, reply |-> r]
ToolReply(name, args, body) ==
  CASE name = "pihole_get_stats" ->
         IF body.stats THEN Returns(Result(<<"json">>)) ELSE Raises(PropertyError)
    [] name = "pihole_get_blocking_status" -> Returns(Result(<<"json">>))
    [] name = "pihole_enable_blocking" ->
         Returns(Result(IF body.blocking = "enabled"
                          THEN <<"Blocking enabled successfully">>
                          ELSE <<"Blocking failed to enable">>))
    [] name = "pihole_disable_blocking" ->
         Returns(Result(IF TruthyNum(ArgNum(args))
                          THEN <<"Blocking disabled for ", ToString(ArgNum(args).v), " seconds">>
                          ELSE <<"Blocking disabled indefinitely">>))
    [] name \in ChartTools ->
         IF args.present /\ args.visualize
           THEN IF body.list.present THEN Returns(Result(<<"chart">>)) ELSE Raises(PropertyError)
           ELSE Returns(Result(<<"json">>))
    [] name \in {"pihole_get_query_log", "pihole_get_whitelist", "pihole_get_blacklist"} ->
         IF body.list.present THEN Returns(Result(<<"json">>)) ELSE Raises(PropertyError)
    [] name = "pihole_add_to_whitelist" -> Returns(Result(<<"Domain added to whitelist">>))
    [] name = "pihole_add_to_blacklist" -> Returns(Result(<<"Domain added to blacklist">>))
    [] name = "pihole_remove_from_whitelist" -> Returns(Result(<<"Domain removed from whitelist">>))
    [] name = "pihole_remove_from_blacklist" -> Returns(Result(<<"Domain removed from blacklist">>))
    [] name = "pihole_update_gravity" ->
         Returns(Result(IF Truthy(body.success)
                          THEN <<"Gravity update started successfully">>
                          ELSE <<"Gravity update failed">>))
    [] name = "pihole_flush_cache" ->
         Returns(Result(IF Truthy(body.success)
                          THEN <<"DNS cache flushed successfully">>
                          ELSE <<"Failed to flush DNS cache">>))

\* a call in progress: of a tool (name) or of a client operation directly
\* (name = "direct")
Call(name, args, method, clientArg, dom) ==
  [name |-> name, pc |-> "main", args |-> args, method |-> method,
   clientArg |-> clientArg, dom |-> dom,
   req |-> IF method = "none" THEN NoReq ELSE ClientRequest(method, clientArg, dom),
   out |-> Pending, auxOut |-> <<Pending, Pending, Pending>>,
   raised |-> NoResult, reply |-> NoReply]

\* an error is raised inside the try block
Raise(t, e) == [t EXCEPT !.pc = "done", !.raised = e, !.reply = Caught(e)]
\* the case ends
Complete(t, r) ==
  IF r.err.tag = "error" THEN Raise(t, r.err)
  ELSE [t EXCEPT !.pc = "done", !.reply = r.reply]

\* the handler is invoked and runs to its first await
ToolStart(name, args) ==
  /\ tool = NoTool
  /\ tool' =
       IF name \notin ToolNames
         THEN Raise(Call(name, args, "none", NoArg, <<>>),
                    MkError("Error", <<"Unknown tool: ", name>>))
       ELSE IF name \in DomainTools /\ ~args.present
         THEN Raise(Call(name, args, "none", NoArg, <<>>), PropertyError)
       ELSE Call(name, args, ToolMethod(name), ToolClientArg(name, args), args.domain)
  /\ UNCHANGED <<now, sid, csrf, sessionExpiry, ops, issued, lastIssued, settled,
                 rejected, viz, calls, ticks>>

\* a client operation is called directly, with its own parameters
DirectCall(m, num, dom) ==
  /\ tool = NoTool
  /\ tool' = [Call("direct", NoArgs, m, num, dom) EXCEPT !.pc = "direct"]
  /\ UNCHANGED <<now, sid, csrf, sessionExpiry, ops, issued, lastIssued, settled,
                 rejected, viz, calls, ticks>>

\* the awaited client call of the tool ends with out
ToolSettle(out) ==
  /\ tool.pc = "main"
  /\ LET t == [tool EXCEPT !.out = out]
     IN  tool' =
           IF ~out.ok THEN Raise(t, out.err)
           ELSE IF t.name = "pihole_get_stats" /\ t.args.present /\ t.args.visualize
             THEN [t EXCEPT !.pc = "aux"]
           ELSE Complete(t, ToolReply(t.name, t.args, out.body))
  /\ UNCHANGED <<now, sid, csrf, sessionExpiry, ops, issued, lastIssued, settled,
                 rejected, viz, calls, ticks>>

\* fetch i of the Promise.all fan-out of pihole_get_stats ends with out
\* (1 = getTopClients(6), 2 = getTopBlockedDomains(6),
\* 3 = getTopPermittedDomains(6)); after the last one the handler goes on
AuxSettle(i, out) ==
  /\ tool.pc = "aux"
  /\ tool.auxOut[i] = Pending
  /\ LET t == [tool EXCEPT !.auxOut[i] = out]
         res == [j \in 1..3 |-> AuxResult(t.auxOut[j])]
         failed == {j \in 1..3 : res[j].rejected}
     IN  \E fmt \in Formats :
           tool' =
             IF \E j \in 1..3 : t.auxOut[j] = Pending THEN t
             ELSE IF failed # {}
               THEN Raise(t, res[CHOOSE j \in failed : \A k \in failed : j <= k].err)
             ELSE IF ~t.out.body.stats THEN Raise(t, PropertyError)
             ELSE Complete(t, Returns(Rendered(
                    CreateDashboard(Stats(1500, fmt), res[1].list, res[2].list, res[3].list))))
  /\ UNCHANGED <<now, sid, csrf, sessionExpiry, ops, issued, lastIssued, settled,
                 rejected, viz, calls, ticks>>

\* the result goes back to the caller
ToolReset ==
  /\ tool.pc \in {"done", "direct"}
  /\ tool' = NoTool
  /\ UNCHANGED <<now, sid, csrf, sessionExpiry, ops, issued, lastIssued, settled,
                 rejected, viz, calls, ticks>>

\* a call starts only when none is in progress: the arguments are
\* enumerated in that case only
ToolNext ==
  \/ /\ tool = NoTool
     /\ \E name \in ToolNames \cup {UnknownTool} : \E args \in ArgsOf(name) : ToolStart(name, args)
  \/ /\ tool = NoTool
     /\ \E m \in Methods : \E num \in NumArgsOf(m), dom \in DomainsOf(m) : DirectCall(m, num, dom)
  \/ \E out \in CallOutcomes : ToolSettle(out)
  \/ \E i \in 1..3, out \in CallOutcomes : AuxSettle(i, out)
  \/ ToolReset

\* the handler and the request each client operation builds
SpecTool == Init /\ [][ToolNext]_vars

(* ------------------------------ properties ---------------------------- *)
\* the calls of operations that go through request()
Requests == {o \in Ops : ops[o].kind = "request"}
\* the calls of testConnection()
Probes == {o \in Ops : ops[o].kind = "probe"}

\* C1: a call that starts while the client holds no token (as on a freshly
\* constructed client) performs exactly one authentication exchange, and
\* that exchange has ended successfully when the data request is issued.
C1_NoTokenAuthenticatesOnce ==
  \A o \in Requests :
    ~ops[o].startHeld =>
      /\ ops[o].authCount = 1
      /\ ops[o].dataCount > 0 => ops[o].authOk

\* the first call on the fresh client has issued its data request
C1_Witness ==
  \E o \in Requests :
    /\ calls = 1
    /\ ~ops[o].startHeld
    /\ ops[o].authCount = 1
    /\ ops[o].authOk
    /\ ops[o].pc = "dataWait"

\* C2: a call that starts while a token is held and the clock is more than
\* 60 s before the stored expiry performs no authentication exchange and
\* goes on to its data request.
C2_FreshSessionNoExchange ==
  \A o \in Requests :
    (ops[o].startHeld /\ ops[o].startMargin = "far") =>
      /\ ops[o].authCount = 0
      /\ ops[o].pc \in {"ensured", "dataWait", "done"}
      /\ ops[o].pc = "done" => ops[o].dataCount = 1

\* a call that found a fresh session has issued its data request
C2_Witness ==
  \E o \in Requests :
    /\ ops[o].startHeld
    /\ ops[o].startMargin = "far"
    /\ ops[o].authCount = 0
    /\ ops[o].pc = "dataWait"

\* C3: a call that starts while a token is held and the clock is exactly
\* 60 s before the stored expiry, or later, performs exactly one
\* authentication exchange, which has ended successfully when the data
\* request is issued.
C3_StaleSessionReauthenticates ==
  \A o \in Requests :
    (ops[o].startHeld /\ ops[o].startMargin \in {"edge", "near"}) =>
      /\ ops[o].authCount = 1
      /\ ops[o].dataCount > 0 => ops[o].authOk

\* a call that started exactly 60 s before the expiry of a held token has
\* re-authenticated and issued its data request
C3_Witness ==
  \E o \in Requests :
    /\ ops[o].startHeld
    /\ ops[o].startMargin = "edge"
    /\ ops[o].authCount = 1
    /\ ops[o].authOk
    /\ ops[o].pc = "dataWait"

\* the number of authentication exchanges the calls of S have started
RECURSIVE SumAuth(_)
SumAuth(S) ==
  IF S = {} THEN 0
  ELSE LET o == CHOOSE x \in S : TRUE
       IN  ops[o].authCount + SumAuth(S \ {o})

\* call o found the session absent or stale when it started
StaleStart(o) == ~ops[o].startHeld \/ ops[o].startMargin \in {"edge", "near"}

\* the running calls, when one of them started on an absent or stale
\* session, have started between 1 and k exchanges
ExchangesBounded ==
  (\E o \in Requests : StaleStart(o)) =>
    /\ SumAuth(Requests) >= 1
    /\ SumAuth(Requests) <= Cardinality(Requests)

\* C4 as claimed: between 1 and k exchanges, and every data request
\* carries an X-FTL-SID token that a successful exchange returned.
C4_EveryRequestCarriesIssuedToken ==
  /\ ExchangesBounded
  /\ \A o \in Requests :
       ops[o].dataCount > 0 =>
         /\ "X-FTL-SID" \in DOMAIN ops[o].hdr
         /\ ops[o].hdr["X-FTL-SID"] \in issued

\* C4: between 1 and k exchanges for k concurrent calls on an absent or
\* stale session; every data request is issued after a successful
\* exchange and with the sid the latest successful exchange stored: as
\* its X-FTL-SID token when that sid is non-empty, with no token of the
\* client when that exchange returned a valid session without a sid.
C4_RequestsUseLatestIssuedSid ==
  /\ ExchangesBounded
  /\ \A o \in Requests :
       ops[o].dataCount > 0 =>
         /\ ops[o].expect \in issued
         /\ IF Truthy(ops[o].expect)
              THEN /\ "X-FTL-SID" \in DOMAIN ops[o].hdr
                   /\ ops[o].hdr["X-FTL-SID"] = ops[o].expect
              ELSE "X-FTL-SID" \in DOMAIN ops[o].hdr => "X-FTL-SID" \in DOMAIN ops[o].opt

\* two concurrent calls have each authenticated and sent their data
\* requests with the tokens of two different exchanges
C4_Witness ==
  \E o, p \in Requests :
    /\ o # p
    /\ ops[o].authCount = 1 /\ ops[p].authCount = 1
    /\ ops[o].pc = "dataWait" /\ ops[p].pc = "dataWait"
    /\ Truthy(ops[o].expect) /\ Truthy(ops[p].expect)
    /\ ops[o].hdr["X-FTL-SID"] # ops[p].hdr["X-FTL-SID"]

\* C5: one call starts at most one authentication exchange and at most one
\* data request; finding the session absent or stale starts exactly one
\* exchange; a call whose exchange or data request failed has ended.
C5_OneExchangeOneRequestPerCall ==
  \A o \in Ops :
    /\ ops[o].authCount <= 1
    /\ ops[o].dataCount <= 1
    /\ (o \in Requests /\ StaleStart(o)) => ops[o].authCount = 1
    /\ ops[o].result.tag = "error" => ops[o].pc = "done"

\* a call has ended with the error of its data request, after one exchange
C5_Witness ==
  \E o \in Requests :
    /\ ops[o].pc = "done"
    /\ ops[o].result.tag = "error"
    /\ ops[o].authCount = 1
    /\ ops[o].dataCount = 1

\* the response of /api/auth is a success response with a JSON body whose
\* session is absent or not valid
InvalidSession(resp) ==
  /\ resp.net = "json"
  /\ resp.ok
  /\ ~(resp.session.present /\ resp.session.valid = JsTrue)

\* the message the remote supplied, when there is one and it is not empty
RemoteMessage(resp) ==
  IF resp.session.present /\ resp.session.message \notin {Undef, Null, ""}
    THEN resp.session.message
    ELSE "Invalid credentials"

\* C6: a call whose exchange got a success response with an invalid or
\* absent session fails with an authentication error whose message is the
\* remote message when that is present and non-empty, else
\* "Invalid credentials".
C6_InvalidSessionMessage ==
  (settled.what = "auth" /\ settled.o \in Requests /\ InvalidSession(settled.auth)) =>
    LET r == ops[settled.o].result
    IN  /\ ops[settled.o].pc = "done"
        /\ r.tag = "error"
        /\ r.msg = <<"Authentication failed: ", RemoteMessage(settled.auth)>>

\* a call has failed with the message the remote supplied
C6_Witness ==
  /\ settled.what = "auth"
  /\ settled.o \in Requests
  /\ InvalidSession(settled.auth)
  /\ settled.auth.session.message = "password incorrect"
  /\ ops[settled.o].result.msg[2] = "password incorrect"

\* the errors request() raises for non-success responses to data requests
ApiErrors == {DataOutcome(resp) : resp \in {d \in DataResponses : d.net # "reject" /\ ~d.ok}}

\* C7: a call whose exchange got a non-success response fails with an
\* authentication error that carries the status, and that error differs
\* from every error raised for a non-success response to a data request.
C7_AuthFailureCarriesStatus ==
  (settled.what = "auth" /\ settled.o \in Requests
     /\ settled.auth.net # "reject" /\ ~settled.auth.ok) =>
    LET r == ops[settled.o].result
    IN  /\ ops[settled.o].pc = "done"
        /\ r.tag = "error"
        /\ r.msg = <<"Authentication failed: ", ToString(settled.auth.status),
                     " ", settled.auth.statusText>>
        /\ r \notin ApiErrors
        /\ \A e \in ApiErrors : e.msg[1] # r.msg[1]

\* a call has failed on a 401 answer to its exchange
C7_Witness ==
  /\ settled.what = "auth"
  /\ settled.o \in Requests
  /\ settled.auth.status = 401
  /\ ops[settled.o].result.tag = "error"
  /\ ops[settled.o].dataCount = 0

\* C8: a call whose data request got a non-success response fails with an
\* API error that carries the status code, the status text and the whole
\* raw body, and returns no value.
C8_ApiErrorCarriesStatusAndBody ==
  (settled.what = "data" /\ settled.data.net # "reject" /\ ~settled.data.ok) =>
    LET r == ops[settled.o].result
    IN  /\ ops[settled.o].pc = "done"
        /\ r.tag = "error"
        /\ r.msg = <<"API request failed: ", ToString(settled.data.status), " ",
                     settled.data.statusText, " - ", settled.data.text>>

\* a call has failed on a 500 answer whose body is not JSON
C8_Witness ==
  /\ settled.what = "data"
  /\ settled.data.status = 500
  /\ ops[settled.o].result.tag = "error"
  /\ ops[settled.o].result.msg[6] = "<html>"

\* C9: a data request issued while a token is held carries X-FTL-SID with
\* the token the latest successful exchange stored, whatever headers the
\* options of the request supplied.
C9_HeaderIsHeldToken ==
  \A o \in Requests :
    (ops[o].dataCount > 0 /\ Truthy(ops[o].expect)) =>
      /\ "X-FTL-SID" \in DOMAIN ops[o].hdr
      /\ ops[o].hdr["X-FTL-SID"] = ops[o].expect

\* a data request whose options supplied their own X-FTL-SID was issued
\* with the held token
C9_Witness ==
  \E o \in Requests :
    /\ ops[o].pc = "dataWait"
    /\ "X-FTL-SID" \in DOMAIN ops[o].opt
    /\ Truthy(ops[o].expect)
    /\ ops[o].hdr["X-FTL-SID"] = ops[o].expect

\* the response of /api/auth is a success response with a valid session
ValidSession(resp) ==
  /\ resp.net = "json"
  /\ resp.ok
  /\ resp.session.present
  /\ resp.session.valid = JsTrue

\* C10: testConnection() starts exactly one authentication exchange and no
\* data request whatever the session is, and ends with true exactly when
\* the exchange succeeded, with false otherwise, never with an error.
C10_ProbeNeverRaises ==
  \A o \in Probes :
    /\ ops[o].authCount = 1
    /\ ops[o].dataCount = 0
    /\ ops[o].pc \in {"authWait", "done"}
    /\ ops[o].pc = "done" =>
         /\ settled.what = "auth" /\ settled.o = o
         /\ ops[o].result.tag = "value"
         /\ ops[o].result.val = IF ValidSession(settled.auth) THEN JsTrue ELSE JsFalse
         /\ ops[o].authOk <=> ValidSession(settled.auth)

\* a probe started on a fresh session has ended with false
C10_Witness ==
  \E o \in Probes :
    /\ ops[o].startHeld
    /\ ops[o].startMargin = "far"
    /\ ops[o].pc = "done"
    /\ ops[o].result.val = JsFalse

\* C19: after a data request has been answered 401, the next operation
\* that starts while the client still holds the rejected token starts an
\* authentication exchange, so that token is not presented again.
C19_ReauthenticatesAfter401 ==
  [][\A o \in Ops :
       (/\ Truthy(sid)
        /\ sid = rejected
        /\ ops[o].kind = "none"
        /\ ops'[o].kind = "request") => ops'[o].authCount = 1]_vars

\* the data rows of section sec
RowsOf(lines, sec) == {i \in 1..Len(lines) : lines[i].sec = sec /\ lines[i].kind = "row"}
\* section sec is emitted
Emitted(lines, sec) == \E i \in 1..Len(lines) : lines[i].sec = sec

\* C17: createDashboard emits the header, the summary and the footer
\* border for every input, each top section exactly when its list is
\* present and non-empty, and at most 6 data rows in each top section.
C17_DashboardSections ==
  viz.fn = "dashboard" =>
    LET lines == viz.lines
        has(list) == list.present /\ Len(list.items) > 0
    IN  /\ lines[1] = Line("header", "top")
        /\ Emitted(lines, "summary")
        /\ lines[Len(lines)] = Line("footer", "bottom")
        /\ Emitted(lines, "clients") <=> has(viz.topClients)
        /\ Emitted(lines, "blocked") <=> has(viz.topBlocked)
        /\ Emitted(lines, "permitted") <=> has(viz.topPermitted)
        /\ \A sec \in {"clients", "blocked", "permitted"} :
             Cardinality(RowsOf(lines, sec)) <= 6

\* a dashboard of a 7-item client list, an empty blocked list and no
\* permitted list
C17_Witness ==
  /\ viz.fn = "dashboard"
  /\ viz.topClients = List(Descending(7))
  /\ viz.topBlocked = List(<<>>)
  /\ viz.topPermitted = NoList
  /\ Cardinality(RowsOf(viz.lines, "clients")) = 6
  /\ ~Emitted(viz.lines, "blocked")

\* the bar the claim describes: full blocks, then at most one partial
\* glyph, then spaces
ExpectedBar(value, max, width) ==
  LET full == IF max = 0 THEN 0
              ELSE IF value >= max THEN width
              ELSE (value * width) \div max
      eighths == IF max = 0 \/ value >= max THEN 0
                 ELSE ((8 * value * width) \div max) % 8
      glyphs == IF eighths = 0 THEN 0 ELSE 1
  IN  [i \in 1..width |->
         IF i <= full THEN BAR_FULL
         ELSE IF i = full + 1 /\ glyphs = 1 THEN BAR_PARTIAL[eighths + 1]
         ELSE " "]

RankedFetches == {"getTopBlockedDomains", "getTopPermittedDomains", "getTopClients"}

\* C11: a count N >= 0 passed to getTopBlockedDomains, getTopPermittedDomains
\* or getTopClients is the number the query string of the request ends
\* with, also when N = 0; 10 is there only when the argument is omitted.
C11_ClientCountVerbatim ==
  (tool.pc # "none" /\ tool.method \in RankedFetches) =>
    /\ tool.req.method = "GET"
    /\ (tool.clientArg.given /\ tool.clientArg.v >= 0) =>
         StrToNum(tool.req.tail) = tool.clientArg.v
    /\ (tool.clientArg = Arg(0)) => tool.req.tail = <<"0">>
    /\ ~tool.clientArg.given => StrToNum(tool.req.tail) = 10

\* getTopClients(0) has built its request
C11_Witness ==
  /\ tool.pc = "direct"
  /\ tool.method = "getTopClients"
  /\ tool.clientArg = Arg(0)
  /\ tool.req.prefix = "/stats/top_clients?count="
  /\ tool.req.tail = <<"0">>

\* C12: a count given to pihole_get_top_blocked, pihole_get_top_permitted,
\* pihole_get_top_clients or pihole_get_query_log, 0 and negative values
\* included, is the number in the query string of the request; the default
\* (10, or 100 for the query log) is there only when count is omitted.
C12_ToolCountVerbatim ==
  (tool.pc # "none" /\ tool.name \in CountTools) =>
    LET count == ArgNum(tool.args)
        default == IF tool.name = "pihole_get_query_log" THEN 100 ELSE 10
    IN  /\ count.given => StrToNum(tool.req.tail) = count.v
        /\ ~count.given => StrToNum(tool.req.tail) = default

\* C13: disableBlocking sends {blocking: false, timer: d} for every
\* duration d it is given and {blocking: false} only when it is given
\* none; the reply of the tool says "disabled for d seconds" exactly when
\* a timer d was sent.
C13_TimerForEveryDuration ==
  (tool.pc # "none" /\ tool.method = "disableBlocking") =>
    /\ tool.req.method = "POST"
    /\ tool.req.prefix = "/dns/blocking"
    /\ tool.clientArg.given => tool.req.body = BlockingBody(JsFalse, TRUE, tool.clientArg.v)
    /\ ~tool.clientArg.given => tool.req.body = BlockingBody(JsFalse, FALSE, 0)
    /\ (tool.pc = "done" /\ ~tool.reply.isError) =>
         IF tool.req.body.hasTimer
           THEN tool.reply.text =
                  <<"Blocking disabled for ", ToString(tool.req.body.timer), " seconds">>
           ELSE tool.reply.text = <<"Blocking disabled indefinitely">>

\* the tools that change the remote system
MutatingTools ==
  DomainTools \cup {"pihole_enable_blocking", "pihole_disable_blocking",
                    "pihole_update_gravity", "pihole_flush_cache"}
\* the reply tells the user the change was made
SaysSuccess(reply) ==
  /\ ~reply.isError
  /\ reply.text[1] \in
       {"Blocking enabled successfully", "Blocking disabled for ",
        "Blocking disabled indefinitely", "Domain added to whitelist",
        "Domain added to blacklist", "Domain removed from whitelist",
        "Domain removed from blacklist", "Gravity update started successfully",
        "DNS cache flushed successfully"}
\* the body of the response says the change was made
BodySuccess(name, body) ==
  CASE name = "pihole_enable_blocking" -> body.blocking = "enabled"
    [] name = "pihole_disable_blocking" -> body.blocking = "disabled"
    [] name \in DomainTools -> body.processed = "ok"
    [] name \in {"pihole_update_gravity", "pihole_flush_cache"} -> Truthy(body.success)

\* C14: a mutating tool reports success only when the body of the remote
\* response indicates success.
C14_SuccessOnlyOnBodySuccess ==
  (tool.pc = "done" /\ tool.name \in MutatingTools /\ SaysSuccess(tool.reply)) =>
    /\ tool.out.ok
    /\ BodySuccess(tool.name, tool.out.body)

\* percent-decoding, as the remote does it
HexVal(c) == CHOOSE d \in 0..15 : HexChars[d + 1] = c
IsHex(c) == \E d \in 0..15 : HexChars[d + 1] = c
CharOfCode(n) ==
  IF \E c \in DOMAIN CharCode : CharCode[c] = n
    THEN CHOOSE c \in DOMAIN CharCode : CharCode[c] = n
    ELSE "<other>"
RECURSIVE PercentDecode(_)
PercentDecode(seg) ==
  IF Len(seg) = 0 THEN <<>>
  ELSE IF Head(seg) # "%" THEN <<Head(seg)>> \o PercentDecode(Tail(seg))
  ELSE IF Len(seg) >= 3 /\ IsHex(seg[2]) /\ IsHex(seg[3])
    THEN <<CharOfCode(16 * HexVal(seg[2]) + HexVal(seg[3]))>>
         \o PercentDecode(SubSeq(seg, 4, Len(seg)))
  ELSE <<"<malformed>">>

\* C15: removeFromWhitelist(d) and removeFromBlacklist(d) issue a DELETE
\* whose last path segment has no reserved character as it stands and
\* percent-decodes to d.
C15_RemovalPathRoundTrips ==
  (tool.pc # "none" /\ tool.method \in {"removeFromWhitelist", "removeFromBlacklist"}) =>
    /\ tool.req.method = "DELETE"
    /\ tool.req.prefix = IF tool.method = "removeFromWhitelist"
                           THEN "/domains/allow/exact/" ELSE "/domains/deny/exact/"
    /\ \A i \in 1..Len(tool.req.tail) : tool.req.tail[i] \notin {" ", "&", "/", "?", "#"}
    /\ PercentDecode(tool.req.tail) = tool.dom

\* removeFromWhitelist("/&%") has built its request
C15_Witness ==
  /\ tool.pc = "direct"
  /\ tool.method = "removeFromWhitelist"
  /\ tool.dom = <<"/", "&", "%">>
  /\ tool.req.tail = <<"%", "2", "F", "%", "2", "6", "%", "2", "5">>

\* the sections of the dashboard the three fan-out fetches fill
AuxSections == <<"clients", "blocked", "permitted">>

\* C16: in a visualized pihole_get_stats whose statistics fetch succeeded,
\* the fan-out fetches that fail leave their sections empty and the call
\* returns a dashboard, whichever of the three fail and with whichever
\* error.
C16_AuxFetchesFaultTolerant ==
  (/\ tool.pc = "done"
   /\ tool.name = "pihole_get_stats"
   /\ tool.args.present /\ tool.args.visualize
   /\ tool.out.ok /\ tool.out.body.stats) =>
    /\ ~tool.reply.isError
    /\ ~tool.reply.escaped
    /\ tool.reply.text = <<"dashboard">>
    /\ Emitted(tool.reply.lines, "summary")
    /\ \A i \in 1..3 :
         LET o == tool.auxOut[i]
         IN  /\ ~o.ok => ~Emitted(tool.reply.lines, AuxSections[i])
             /\ (o.ok /\ o.body.list.present /\ Len(o.body.list.items) > 0) =>
                  Emitted(tool.reply.lines, AuxSections[i])

\* a dashboard after the first fetch failed in transport, the second with
\* an authentication error, and the third delivered two items
C16_Witness ==
  /\ tool.pc = "done"
  /\ tool.name = "pihole_get_stats"
  /\ tool.auxOut[1] = Fail(TransportError)
  /\ tool.auxOut[2] = Fail(MkError("Error", <<"Authentication failed: ", "password incorrect">>))
  /\ tool.auxOut[3] = Done(Json(FALSE, Undef, Undef, List(Descending(2)), "errors"))
  /\ ~tool.reply.isError
  /\ ~Emitted(tool.reply.lines, "clients")
  /\ Cardinality(RowsOf(tool.reply.lines, "permitted")) = 2

\* C18: every error raised while a tool call is handled, by the client
\* (authentication, API, transport) or by the handler (unknown tool), is
\* returned as a result with isError = true and the message as text; no
\* exception leaves the handler.
C18_ErrorsBecomeResults ==
  tool.pc = "done" =>
    /\ ~tool.reply.escaped
    /\ tool.raised.tag = "error" =>
         /\ tool.reply.isError
         /\ tool.reply.text = <<"Error: ">> \o tool.raised.msg
    /\ (tool.out # Pending /\ ~tool.out.ok) => tool.raised = tool.out.err
    /\ tool.name \notin ToolNames =>
         tool.raised = MkError("Error", <<"Unknown tool: ", tool.name>>)

\* a call of pihole_enable_blocking whose fetch was rejected
C18_Witness ==
  /\ tool.pc = "done"
  /\ tool.name = "pihole_enable_blocking"
  /\ tool.out = Fail(TransportError)
  /\ tool.reply.isError
  /\ tool.reply.text = <<"Error: ", "fetch failed">>

\* the characters of a string that are decimal digits
RECURSIVE DigitsOf(_)
DigitsOf(str) ==
  IF Len(str) = 0 THEN <<>>
  ELSE IF \E d \in 1..10 : DigitChars[d] = Head(str)
    THEN <<Head(str)>> \o DigitsOf(Tail(str))
  ELSE DigitsOf(Tail(str))
\* the string without its last character
Front(str) == SubSeq(str, 1, Len(str) - 1)

\* what formatNumber returns outside the range 1,000..9,999, and the
\* examples that do not depend on the locale
FormatOutsideGrouping ==
  LET n == viz.num
      out == viz.out
  IN  /\ n < 1000 => (out = DigitsOf(out) /\ StrToNat(out) = n /\ Len(out) <= 3)
      /\ (n >= 10000 /\ n < 1000000) =>
           /\ out[Len(out)] = "K"
           /\ Front(out) = DigitsOf(out)
           /\ 1000 * StrToNat(Front(out)) - n <= 500
           /\ n - 1000 * StrToNat(Front(out)) < 500
      /\ n >= 1000000 =>
           /\ out[Len(out)] = "M"
           /\ out[Len(out) - 2] = "."
           /\ Len(DigitsOf(out)) = Len(out) - 2
           /\ 100000 * StrToNat(DigitsOf(out)) - n <= 50000
           /\ n - 100000 * StrToNat(DigitsOf(out)) <= 50000
      /\ n = 999 => out = <<"9", "9", "9">>
      /\ n = 15000 => out = <<"1", "5", "K">>
      /\ n = 2500000 => out = <<"2", ".", "5", "M">>

\* C21 as stated: 1,000 <= n < 10,000 gives the digits with a grouping
\* separator, 1500 gives "1,500".
C21_FormatNumberGrouped ==
  viz.fn = "formatNumber" =>
    /\ FormatOutsideGrouping
    /\ (viz.num >= 1000 /\ viz.num < 10000) =>
         /\ Len(viz.out) = 5
         /\ viz.out[2] \notin {"0", "1", "2", "3", "4", "5", "6", "7", "8", "9"}
         /\ StrToNat(DigitsOf(viz.out)) = viz.num
    /\ viz.num = 1500 => viz.out = <<"1", ",", "5", "0", "0">>

\* C21: formatNumber(n) is the decimal digits for n < 1,000; for 1,000 <=
\* n < 10,000 the digits as the locale of the process groups them ("1,500"
\* in en-US, "1.500" in de-DE, "1500" in es-ES); n/1000 rounded to a whole
\* number and "K" for 10,000 <= n < 1,000,000; n/1,000,000 rounded to one
\* decimal and "M" from 1,000,000 on.
C21_FormatNumberByLocale ==
  viz.fn = "formatNumber" =>
    /\ FormatOutsideGrouping
    /\ (viz.num >= 1000 /\ viz.num < 10000) =>
         /\ StrToNat(DigitsOf(viz.out)) = viz.num
         /\ viz.fmt.locale = "en-US" => (Len(viz.out) = 5 /\ viz.out[2] = ",")
         /\ viz.fmt.locale = "de-DE" => (Len(viz.out) = 5 /\ viz.out[2] = ".")
         /\ viz.fmt.locale = "es-ES" => Len(viz.out) = 4
    /\ (viz.num = 1500 /\ viz.fmt.locale = "en-US") => viz.out = <<"1", ",", "5", "0", "0">>

\* formatNumber(1500) has returned "1.500" in a German locale
C21_Witness ==
  /\ viz.fn = "formatNumber"
  /\ viz.num = 1500
  /\ viz.fmt.locale = "de-DE"
  /\ viz.out = <<"1", ".", "5", "0", "0">>

\* C22: every line createDashboard and createBarChart produce has exactly
\* 78 display columns, ANSI colour sequences not counted, whatever the
\* input.
C22_EveryLine78Columns ==
  viz.fn \in {"dashboard", "chart"} =>
    \A i \in 1..Len(viz.lines) : viz.lines[i].cols = W

\* the step in which the exchange of request call o ends in failure
AuthFails(o) ==
  /\ ops[o].kind = "request"
  /\ ops[o].pc = "authWait"
  /\ settled' = AuthSettled(o, settled'.auth)
  /\ ~Authenticate(settled'.auth, now).write

\* what every failed exchange of a request call does: the call ends with
\* the error of the exchange, has issued no data request and holds no
\* headers (not even with a token that is still stored), and the step
\* writes none of the three session fields
FailureEndsCall(o) ==
  /\ ops'[o].pc = "done"
  /\ ops'[o].result = Authenticate(settled'.auth, now).result
  /\ ops'[o].result.tag = "error"
  /\ ops'[o].dataCount = 0
  /\ ops'[o].hdr = NoHeaders
  /\ UNCHANGED <<sid, csrf, sessionExpiry>>

\* C23 as stated: a failed exchange ends the call with that error and
\* without a data request, the session fields are those from before the
\* attempt (which found them absent or inside the margin, and time only
\* advances), so the call invoked next finds them so again and starts an
\* exchange; a token held before the attempt is held after it and a call
\* that held none holds none.
C23_FailureKeepsSessionOfStart ==
  [][\A o \in Ops : AuthFails(o) =>
        /\ FailureEndsCall(o)
        /\ Truthy(sid') = ops[o].startHeld
        /\ NeedsAuth(sid', sessionExpiry', now')]_vars

\* C23 (amended): a failed exchange ends the call with that error and
\* without a data request, and the failing exchange itself writes no
\* session field; when no exchange of another call stored a session while
\* this one was under way, the fields are still absent or inside the
\* margin, so the call invoked next starts an exchange; every call that
\* finds the session absent or inside the margin starts one.
C23_FailureWritesNothing ==
  [][/\ \A o \in Ops : AuthFails(o) =>
          /\ FailureEndsCall(o)
          /\ ~ops[o].overtaken =>
                /\ Truthy(sid') = ops[o].startHeld
                /\ NeedsAuth(sid', sessionExpiry', now')
     /\ \A o \in Ops :
          (/\ ops[o].kind = "none"
           /\ ops'[o].kind = "request"
           /\ NeedsAuth(sid, sessionExpiry, now)) =>
             ops'[o].pc = "authWait" /\ ops'[o].authCount = 1]_vars

\* the exchange of a call that started with a token inside the margin has
\* just failed: the call has ended with the error, the token is still
\* stored and still inside the margin
C23_Witness ==
  \E o \in Requests :
    /\ settled.what = "auth" /\ settled.o = o
    /\ ~Authenticate(settled.auth, now).write
    /\ ops[o].pc = "done" /\ ops[o].result.tag = "error"
    /\ ops[o].dataCount = 0
    /\ ops[o].startHeld /\ Truthy(sid)
    /\ NeedsAuth(sid, sessionExpiry, now)

\* the three fields a successful exchange stores when it completes at t
\* with session payload p
SessionOf(p, t) == <<p.sid, p.csrf, t + p.validity * 1000>>

\* the session payloads authenticate() accepts
ValidPayloads == {p \in SessionPayloads : p.present /\ p.valid = JsTrue}

\* the instants Date.now() can have returned up to the present
PastInstants ==
  {t \in {s + k * d : s \in StartTimes, k \in 0..MaxTicks, d \in TickSteps} : t <= now}

\* the three fields as stored
StoredSession == <<sid, csrf, sessionExpiry>>

\* C24: in every reachable state the stored token, anti-forgery token and
\* expiry are those of one successful exchange (or the three initial values
\* when none has succeeded), the token being the one most recently issued;
\* and in every step of every interleaving the three fields change only
\* together, in the step in which an exchange succeeds, to the three values
\* of that exchange.
C24_SessionFromOneExchange ==
  /\ [](\/ lastIssued = Undef /\ StoredSession = <<Null, Null, 0>>
        \/ /\ lastIssued = sid
           /\ \E p \in ValidPayloads, t \in PastInstants : StoredSession = SessionOf(p, t))
  /\ [][/\ StoredSession' # StoredSession =>
            settled'.what = "auth" /\ ValidSession(settled'.auth)
        /\ (settled'.what = "auth" /\ ValidSession(settled'.auth)) =>
            StoredSession' = SessionOf(settled'.auth.session, now)]_vars

\* the exchange of one call has just succeeded while the exchange of a
\* connectivity probe started before it is still under way, and the three
\* fields are those of the exchange that succeeded
C24_Witness ==
  \E o \in Ops, p \in Probes :
    /\ settled.what = "auth" /\ settled.o = o
    /\ ValidSession(settled.auth)
    /\ Truthy(sid)
    /\ StoredSession = SessionOf(settled.auth.session, now)
    /\ ops[p].pc = "authWait" /\ ops[p].overtaken

\* the stored session is one the remote declared valid for 60 s or less
ShortLived ==
  /\ lastIssued # Undef
  /\ \E p \in ValidPayloads :
       /\ p.validity <= 60
       /\ sid = p.sid
       /\ \E t \in PastInstants : StoredSession = SessionOf(p, t)

\* C25: a successful exchange stores as expiry its completion instant plus
\* the declared validity in seconds; while the stored session is one that
\* was declared valid for 60 s or less the session is absent or inside the
\* margin in every state, every call invoked starts an authentication
\* exchange, and no call has issued a data request without one.
C25_ShortValidityNeverAuthenticated ==
  /\ [](ShortLived => (~Truthy(sid) \/ now >= sessionExpiry - 60000))
  /\ [][/\ (settled'.what = "auth" /\ ValidSession(settled'.auth)) =>
            sessionExpiry' = now + settled'.auth.session.validity * 1000
        /\ \A o \in Ops :
             (ops[o].kind = "none" /\ ops'[o].kind = "request" /\ ShortLived) =>
               /\ ops'[o].pc = "authWait"
               /\ ops'[o].authCount = 1
               /\ ops'[o].dataCount = 0
        /\ \A o \in Ops :
             (ops[o].kind = "request" /\ ops'[o].dataCount > ops[o].dataCount) =>
               (ops[o].authCount = 1 \/ ~StaleStart(o))]_vars

\* a call is invoked at the very instant an exchange stored a token
\* declared valid for exactly 60 s: it finds the token and waits for an
\* exchange of its own
C25_Witness ==
  \E o \in Requests :
    /\ ShortLived /\ Truthy(sid)
    /\ now = sessionExpiry - 60000
    /\ ops[o].pc = "authWait" /\ ops[o].authCount = 1
    /\ ops[o].startHeld /\ ops[o].startMargin = "edge"
    /\ ~ops[o].overtaken

TypeOK ==
  /\ now \in Nat
  /\ sessionExpiry \in Int
  /\ calls \in 0..MaxCalls
  /\ ticks \in 0..MaxTicks
  /\ \A o \in Ops : ops[o].pc \in {"idle", "authWait", "ensured", "dataWait", "done"}

====
